---- MODULE Spec2Model ----
(***************************************************************************)
(* generic-rat (src/src/lib.rs): a single-threaded browser application.    *)
(* The state is the RefCell fields of App.  Every key event is spawned as  *)
(* its own async handler (main, lines 33-38); a handler runs atomically    *)
(* from one await to the next, so one action is one such run.  The render  *)
(* callback (lines 41-43) is one more atomic step.                         *)
(***************************************************************************)
EXTENDS Integers, Sequences, FiniteSets, TLC

\* ---------------------------------------------------------------- bounds
\* external calls (text-fetch, file-pick, export) issued in one run
MaxCalls == 2
\* entries in one picked file sequence
MaxFiles == 2
\* write calls made on a standalone InMemoryVfs
MaxWrites == 3
\* Right presses explored by Spec (SpecCounter explores the whole u8 range)
MaxCounter == 1

\* ------------------------------------------------------- program constants
U8Max == 255
PreviewLen == 30
Newline == 10
Space == 32
ReplacementChar == 65533

\* ------------------------------------------------------------ input data
\* paths are byte strings, "a" and "b"; contents are "h\ni" and the lone
\* invalid byte 0xFF
\* the FileEntry values (lines 258-261) the picker hands back: two contents
\* for "a", one for "b"
FileEntry == { [path |-> <<97>>, bytes |-> <<104, 10, 105>>],
               [path |-> <<97>>, bytes |-> <<255>>],
               [path |-> <<98>>, bytes |-> <<104, 10, 105>>] }
\* errors the host can hand back as a JsValue
JsErrors == { "JsValue(err)" }
\* what load_text can return (lines 209-216)
FetchResults == { <<"sample text">>, <<"<failed to read text>">>,
                  <<"<fetch failed: ", "err", ">">> }

\* Option<T>: None is the empty sequence, Some(x) the one-element sequence
None == << >>
Some(x) == << x >>
IsSome(o) == Len(o) = 1
Unwrap(o) == o[1]

RECURSIVE SeqsUpTo(_, _)
SeqsUpTo(S, n) ==
  IF n = 0 THEN { << >> }
  ELSE LET shorter == SeqsUpTo(S, n - 1)
       IN  shorter \cup { Append(s, e) : s \in shorter, e \in S }

\* the file sequences gather_files can return
PickedFiles == SeqsUpTo(FileEntry, MaxFiles)

Min(a, b) == IF a < b THEN a ELSE b

\* ------------------------------------------------------------ InMemoryVfs
\* String's Ord: byte-wise lexicographic, a proper prefix comes first
RECURSIVE LexLess(_, _)
LexLess(p, q) ==
  IF q = << >> THEN FALSE
  ELSE IF p = << >> THEN TRUE
  ELSE IF Head(p) # Head(q) THEN Head(p) < Head(q)
  ELSE LexLess(Tail(p), Tail(q))

\* BTreeMap::new
EmptyMap == [p \in {} |-> << >>]

\* (mutant) an insert that keeps the value of a key already present
InsertKeepFirst(map, path, data) ==
  [p \in DOMAIN map \cup {path} |-> IF p \in DOMAIN map THEN map[p] ELSE data]

\* BTreeMap::insert: the key is created or its value replaced
Insert(map, path, data) ==
  [p \in DOMAIN map \cup {path} |-> IF p = path THEN data ELSE map[p]]

\* (mutant) the keys from the largest down
RECURSIVE SortedKeysDescending(_)
SortedKeysDescending(S) ==
  IF S = {} THEN << >>
  ELSE LET most == CHOOSE p \in S : \A q \in S \ {p} : LexLess(q, p)
       IN  <<most>> \o SortedKeysDescending(S \ {most})

\* BTreeMap::keys in order, collected
RECURSIVE SortedKeys(_)
SortedKeys(S) ==
  IF S = {} THEN << >>
  ELSE LET least == CHOOSE p \in S : \A q \in S \ {p} : LexLess(p, q)
       IN  <<least>> \o SortedKeys(S \ {least})

VfsList(v) == SortedKeys(DOMAIN v.files)

VfsRead(v, path) ==
  IF path \in DOMAIN v.files THEN Some(v.files[path]) ELSE None

\* (mutant) a write that leaves a path already stored as it is
VfsWriteIfAbsent(v, path, data) ==
  [files |-> InsertKeepFirst(v.files, path, data)]

VfsWrite(v, path, data) == [files |-> Insert(v.files, path, data)]

\* Option::unwrap_or_default on Option<Vec<u8>>
UnwrapOrDefault(o) == IF IsSome(o) THEN Unwrap(o) ELSE << >>

\* mount_picked_crate after gather_files returned Ok(files): lines 290-294
RECURSIVE InsertAll(_, _)
InsertAll(map, files) ==
  IF files = << >> THEN map
  ELSE InsertAll(Insert(map, Head(files).path, Head(files).bytes), Tail(files))

MountFiles(files) == [files |-> InsertAll(EmptyMap, files)]

\* ------------------------------------------------------- preview projector
\* String::from_utf8_lossy (line 78), for contents made of ASCII bytes,
\* two-byte sequences (lead 0xC2..0xDF, continuation 0x80..0xBF) and bytes
\* that belong to no sequence, each of which becomes one U+FFFD.  Leads of
\* three- and four-byte sequences (0xE0..0xF7) occur in no content used here.
RECURSIVE FromUtf8Lossy(_)
FromUtf8Lossy(bytes) ==
  IF bytes = << >> THEN << >>
  ELSE LET b == Head(bytes)
       IN  IF b < 128 THEN <<b>> \o FromUtf8Lossy(Tail(bytes))
           ELSE IF b \in 194..223 /\ Len(bytes) >= 2 /\ bytes[2] \in 128..191
           THEN <<(b - 192) * 64 + (bytes[2] - 128)>>
                  \o FromUtf8Lossy(SubSeq(bytes, 3, Len(bytes)))
           ELSE <<ReplacementChar>> \o FromUtf8Lossy(Tail(bytes))

\* .replace('\n', " ") (line 78)
ReplaceNewlines(s) ==
  [i \in 1..Len(s) |-> IF s[i] = Newline THEN Space ELSE s[i]]

\* (mutant) a take that is one character too long
TakeCharsOffByOne(s, n) == SubSeq(s, 1, Min(n + 1, Len(s)))

\* .chars().take(30).collect() (line 79)
TakeChars(s, n) == SubSeq(s, 1, Min(n, Len(s)))

PreviewOf(bytes) == TakeChars(ReplaceNewlines(FromUtf8Lossy(bytes)), PreviewLen)

\* the loop of rebuild_previews (lines 76-84) over a mounted vfs
ProjectPreviews(v) ==
  LET paths == VfsList(v)
  IN  [i \in 1..Len(paths) |->
         [path |-> paths[i],
          preview |-> PreviewOf(UnwrapOrDefault(VfsRead(v, paths[i])))]]

\* ------------------------------------------------------------ RefCell
\* RefCell's borrow flag: 0 unused, -1 mutably borrowed, n > 0 shared borrows
Fields == {"counter", "loaded_text", "vfs", "previews", "status"}
Unused == 0
Writing == 0 - 1
\* RefCell::borrow succeeds unless a RefMut is live
CanBorrow(flag) == flag >= 0
\* RefCell::borrow_mut and RefCell::replace succeed only on an unused cell
CanBorrowMut(flag) == flag = 0

\* ------------------------------------------------------------ status texts
StatusInitial == <<"Press U to upload a crate">>
StatusLoaded(n) == <<"Loaded ", n, " files. Press E to export.">>
StatusLoadFailed(e) == <<"Failed to load crate: ", e>>
StatusExportFailed(e) == <<"Export failed: ", e>>

\* ------------------------------------------------------------------ state
VARIABLES
  counter,      \* App.counter: u8
  loaded_text,  \* App.loaded_text: Option<String>
  vfs,          \* App.vfs: Option<InMemoryVfs>
  previews,     \* App.previews: Vec<FilePreview>
  status,       \* App.status: String
  borrow,       \* the borrow flag of each RefCell between handler steps
  panicUnwinds, \* the build's panic strategy: unwind (guards dropped) or abort
  tasks,        \* the spawned 'l' and 'u' handlers, in spawn order
  lastPick,     \* the pick that resumed with Ok most recently: task and files
  exportCalls,  \* how often export_as_zip was called
  lastExport,   \* its latest call: the files read from the vfs, the result
  panics,       \* the places where a borrow panicked so far
  store,        \* an InMemoryVfs used on its own through the Vfs trait
  writes        \* the write calls made on store, in order

vars == <<counter, loaded_text, vfs, previews, status, borrow, panicUnwinds,
          tasks, lastPick, exportCalls, lastExport, panics, store, writes>>

\* App::new (lines 64-71) and the state of main before the first event
Init ==
  /\ counter = 0
  /\ loaded_text = None
  /\ vfs = None
  /\ previews = << >>
  /\ status = StatusInitial
  /\ borrow = [f \in Fields |-> Unused]
  /\ panicUnwinds \in BOOLEAN
  /\ tasks = << >>
  /\ lastPick = None
  /\ exportCalls = 0
  /\ lastExport = None
  /\ panics = {}
  /\ store = [files |-> EmptyMap]
  /\ writes = << >>

\* a guard that is live when its handler panics: dropped by unwinding,
\* leaked when the panic aborts
AfterPanic(flag) == IF panicUnwinds THEN Unused ELSE flag

\* (mutant) u8::wrapping_add
WrappingAdd(c, n) == (c + n) % (U8Max + 1)

\* u8::saturating_sub / u8::saturating_add
SaturatingSub(c, n) == IF c < n THEN 0 ELSE c - n
SaturatingAdd(c, n) == IF c + n > U8Max THEN U8Max ELSE c + n

\* every spawned 'l' or 'u' handler has issued one call
CallsIssued == Len(tasks) + exportCalls

Awaiting(t, kind) ==
  /\ t \in DOMAIN tasks
  /\ tasks[t].kind = kind
  /\ tasks[t].st = "awaiting"

Spawn(kind) == Append(tasks, [kind |-> kind, st |-> "awaiting", res |-> "none"])
Finish(t, st, res) == [tasks EXCEPT ![t].st = st, ![t].res = res]

\* Result<T, JsValue>
Ok(x) == [ok |-> TRUE, val |-> x]
Err(e) == [ok |-> FALSE, err |-> e]

\* ------------------------------------------------------- rebuild_previews
\* Lines 72-92 on the fields as they are when it is called.  The RefMut taken
\* at line 73 lives to the end of the body, so it is still live when line 89
\* asks for a shared borrow of the same cell.
RebuildPreviews(vfsNow, previewsNow, statusNow, flags) ==
  IF ~CanBorrowMut(flags["previews"])
  THEN [previews |-> previewsNow, status |-> statusNow, flags |-> flags,
        panic |-> {"previews.borrow_mut@73"}]
  ELSE LET held  == [flags EXCEPT !["previews"] = Writing]
           built == IF IsSome(vfsNow) THEN ProjectPreviews(Unwrap(vfsNow))
                    ELSE << >>
       IN  IF ~IsSome(vfsNow)
           THEN [previews |-> built, status |-> statusNow, flags |-> flags,
                 panic |-> {}]
           ELSE IF CanBorrow(held["previews"])
           THEN [previews |-> built, status |-> StatusLoaded(Len(built)),
                 flags |-> flags, panic |-> {}]
           ELSE [previews |-> built, status |-> statusNow,
                 flags |-> [held EXCEPT !["previews"] = AfterPanic(Writing)],
                 panic |-> {"previews.borrow@89"}]

\* (mutant) a mount that merges the new files into the mounted ones
VfsAfterMountMerge(t, old, v) ==
  IF IsSome(old)
  THEN Some([files |-> [p \in DOMAIN Unwrap(old).files \cup DOMAIN v.files |->
                          IF p \in DOMAIN v.files THEN v.files[p]
                          ELSE Unwrap(old).files[p]]])
  ELSE Some(v)

\* (mutant) a mount that gives way to a pick issued later and mounted already
VfsAfterMountIssueOrder(t, old, v) ==
  IF IsSome(lastPick) /\ Unwrap(lastPick).task > t THEN old ELSE Some(v)

\* self.vfs.replace(Some(vfs)) at line 130, in the handler t
VfsAfterMount(t, old, v) == Some(v)

\* export_as_zip, lines 298-312: one record per listed path, with its bytes
ExportFiles(v) ==
  LET paths == VfsList(v)
  IN  [i \in 1..Len(paths) |->
         [path |-> paths[i], bytes |-> UnwrapOrDefault(VfsRead(v, paths[i]))]]

\* ---------------------------------------------------------------- handlers
\* KeyCode::Left, lines 116-119
KeyLeft ==
  /\ counter' = SaturatingSub(counter, 1)
  /\ UNCHANGED <<loaded_text, vfs, previews, status, borrow, panicUnwinds,
                 tasks, lastPick, exportCalls, lastExport, panics>>
  /\ UNCHANGED <<store, writes>>

\* KeyCode::Right, lines 120-123
KeyRight ==
  /\ counter' = SaturatingAdd(counter, 1)
  /\ UNCHANGED <<loaded_text, vfs, previews, status, borrow, panicUnwinds,
                 tasks, lastPick, exportCalls, lastExport, panics>>
  /\ UNCHANGED <<store, writes>>

\* (mutant) an 'l' that fetches again when the text held is a fetch error
KeyLRetriesAfterFailure ==
  /\ IF loaded_text = None \/ loaded_text \in {Some(f) : f \in FetchResults \ {<<"sample text">>}}
     THEN /\ CallsIssued < MaxCalls
          /\ tasks' = Spawn("l")
     ELSE UNCHANGED tasks
  /\ UNCHANGED <<counter, loaded_text, vfs, previews, status, borrow,
                 panicUnwinds, lastPick, exportCalls, lastExport, panics>>
  /\ UNCHANGED <<store, writes>>

\* KeyCode::Char('l'), line 124-125: the guard is evaluated when the handler
\* starts; a handler that passes it calls load_text and is suspended.  When
\* the guard fails the event falls through to the `_` arm.
KeyL ==
  /\ IF loaded_text = None
     THEN /\ CallsIssued < MaxCalls
          /\ tasks' = Spawn("l")
     ELSE UNCHANGED tasks
  /\ UNCHANGED <<counter, loaded_text, vfs, previews, status, borrow,
                 panicUnwinds, lastPick, exportCalls, lastExport, panics>>
  /\ UNCHANGED <<store, writes>>

\* line 126: load_text returned `text` to the suspended handler t
FetchResume(t, text) ==
  /\ Awaiting(t, "l")
  /\ loaded_text' = Some(text)
  /\ tasks' = Finish(t, "done", "ok")
  /\ UNCHANGED <<counter, vfs, previews, status, borrow, panicUnwinds,
                 lastPick, exportCalls, lastExport, panics>>
  /\ UNCHANGED <<store, writes>>

\* KeyCode::Char('u'), line 128: mount_picked_crate is called and awaited
KeyU ==
  /\ CallsIssued < MaxCalls
  /\ tasks' = Spawn("u")
  /\ UNCHANGED <<counter, loaded_text, vfs, previews, status, borrow,
                 panicUnwinds, lastPick, exportCalls, lastExport, panics>>
  /\ UNCHANGED <<store, writes>>

\* lines 129-132: the pick of handler t returned the entries `files`
PickResumeOk(t, files) ==
  /\ Awaiting(t, "u")
  /\ LET mounted == VfsAfterMount(t, vfs, MountFiles(files))
         r == RebuildPreviews(mounted, previews, status, borrow)
     IN  /\ vfs' = mounted
         /\ previews' = r.previews
         /\ status' = r.status
         /\ borrow' = r.flags
         /\ panics' = panics \cup r.panic
         /\ tasks' = Finish(t, IF r.panic = {} THEN "done" ELSE "panicked", "ok")
  /\ lastPick' = Some([task |-> t, files |-> files])
  /\ UNCHANGED <<counter, loaded_text, panicUnwinds, exportCalls, lastExport>>
  /\ UNCHANGED <<store, writes>>

\* (mutant) a failed pick that also unmounts
PickResumeErrUnmounts(t, e) ==
  /\ Awaiting(t, "u")
  /\ status' = StatusLoadFailed(e)
  /\ vfs' = None
  /\ previews' = << >>
  /\ tasks' = Finish(t, "done", "err")
  /\ UNCHANGED <<counter, loaded_text, borrow, panicUnwinds,
                 lastPick, exportCalls, lastExport, panics>>
  /\ UNCHANGED <<store, writes>>

\* lines 133-136: the pick of handler t failed with e
PickResumeErr(t, e) ==
  /\ Awaiting(t, "u")
  /\ status' = StatusLoadFailed(e)
  /\ tasks' = Finish(t, "done", "err")
  /\ UNCHANGED <<counter, loaded_text, vfs, previews, borrow, panicUnwinds,
                 lastPick, exportCalls, lastExport, panics>>
  /\ UNCHANGED <<store, writes>>

\* (mutant) an export that reports its success in status
KeyEReportsSuccess(outcome) ==
  /\ IF IsSome(vfs)
     THEN LET files  == ExportFiles(Unwrap(vfs))
              result == IF files = << >> THEN Ok("()") ELSE outcome
          IN  /\ CallsIssued < MaxCalls
              /\ exportCalls' = exportCalls + 1
              /\ lastExport' = Some([files |-> files, result |-> result])
              /\ status' = IF result.ok THEN <<"Exported">>
                           ELSE StatusExportFailed(result.err)
     ELSE UNCHANGED <<exportCalls, lastExport, status>>
  /\ UNCHANGED <<counter, loaded_text, vfs, previews, borrow, panicUnwinds,
                 tasks, lastPick, panics>>
  /\ UNCHANGED <<store, writes>>

\* KeyCode::Char('e'), lines 138-144.  export_as_zip can fail only inside
\* its loop (Reflect::set), so never over an empty vfs; on Ok it has called
\* download_as_zip with the files.
KeyE(outcome) ==
  /\ IF IsSome(vfs)
     THEN LET files  == ExportFiles(Unwrap(vfs))
              result == IF files = << >> THEN Ok("()") ELSE outcome
          IN  /\ CallsIssued < MaxCalls
              /\ exportCalls' = exportCalls + 1
              /\ lastExport' = Some([files |-> files, result |-> result])
              /\ status' = IF result.ok THEN status
                           ELSE StatusExportFailed(result.err)
     ELSE UNCHANGED <<exportCalls, lastExport, status>>
  /\ UNCHANGED <<counter, loaded_text, vfs, previews, borrow, panicUnwinds,
                 tasks, lastPick, panics>>
  /\ UNCHANGED <<store, writes>>

\* the `_ => {}` arm, line 145: every code that is none of Left, Right,
\* Char('l'), Char('u'), Char('e'); Char('U') and Char('E') are such codes
OtherKeys == {"U", "E", "Up"}

\* (mutant) a match that takes Char('U') and Char('E') for 'u' and 'e'
KeyOtherFoldsCase(code) ==
  /\ code \in OtherKeys
  /\ IF code = "U" THEN KeyU
     ELSE IF code = "E" THEN \E outcome \in {Ok("()")} : KeyE(outcome)
     ELSE UNCHANGED vars

KeyOther(code) ==
  /\ code \in OtherKeys
  /\ UNCHANGED vars

\* App::render, lines 93-112: the Refs of counter and loaded_text are moved
\* into the generate_ functions and dropped there; generate_file_previews
\* borrows previews (lines 189, 194) and status (line 191)
Render ==
  /\ panics' = IF CanBorrow(borrow["previews"]) THEN panics
               ELSE panics \cup {"previews.borrow@189"}
  /\ UNCHANGED <<counter, loaded_text, vfs, previews, status, borrow,
                 panicUnwinds, tasks, lastPick, exportCalls, lastExport>>
  /\ UNCHANGED <<store, writes>>

\* ---------------------------------------------------------- specifications
ExportOutcomes == {Ok("()")} \cup {Err(e) : e \in JsErrors}

Next ==
  \/ KeyLeft
  \/ (counter < MaxCounter /\ KeyRight)
  \/ KeyL
  \/ \E t \in DOMAIN tasks, text \in FetchResults : FetchResume(t, text)
  \/ KeyU
  \/ \E t \in DOMAIN tasks, files \in PickedFiles : PickResumeOk(t, files)
  \/ \E t \in DOMAIN tasks, e \in JsErrors : PickResumeErr(t, e)
  \/ \E outcome \in ExportOutcomes : KeyE(outcome)
  \/ \E code \in OtherKeys : KeyOther(code)
  \/ Render

Spec == Init /\ [][Next]_vars

\* The same handlers with the arrow keys unbounded, so that counter runs over
\* the whole u8 range; the host's answers are drawn from smaller sets.
CounterPicks == SeqsUpTo({[path |-> <<97>>, bytes |-> <<255>>]}, 1)

NextCounter ==
  \/ KeyLeft
  \/ KeyRight
  \/ KeyL
  \/ \E t \in DOMAIN tasks : FetchResume(t, <<"sample text">>)
  \/ KeyU
  \/ \E t \in DOMAIN tasks, files \in CounterPicks : PickResumeOk(t, files)
  \/ \E t \in DOMAIN tasks, e \in JsErrors : PickResumeErr(t, e)
  \/ \E outcome \in ExportOutcomes : KeyE(outcome)
  \/ \E code \in OtherKeys : KeyOther(code)
  \/ Render

SpecCounter == Init /\ [][NextCounter]_vars

\* The same handlers with picked contents that reach past the preview length:
\* 40 ASCII characters with a newline at the sixth, 31 times the two-byte
\* character U+00E9, and the short "h\ni".
LongText == [i \in 1..40 |-> IF i = 6 THEN 10 ELSE 120]
AccentText == [i \in 1..62 |-> IF i % 2 = 1 THEN 195 ELSE 169]
PreviewPicks ==
  { << >>,
    << [path |-> <<97>>, bytes |-> <<104, 10, 105>>] >>,
    << [path |-> <<97>>, bytes |-> LongText] >>,
    << [path |-> <<98>>, bytes |-> AccentText],
       [path |-> <<97>>, bytes |-> LongText] >> }

NextPreview ==
  \/ KeyLeft
  \/ (counter < MaxCounter /\ KeyRight)
  \/ KeyL
  \/ \E t \in DOMAIN tasks : FetchResume(t, <<"sample text">>)
  \/ KeyU
  \/ \E t \in DOMAIN tasks, files \in PreviewPicks : PickResumeOk(t, files)
  \/ \E t \in DOMAIN tasks, e \in JsErrors : PickResumeErr(t, e)
  \/ \E outcome \in ExportOutcomes : KeyE(outcome)
  \/ \E code \in OtherKeys : KeyOther(code)
  \/ Render

SpecPreview == Init /\ [][NextPreview]_vars

\* InMemoryVfs on its own: any sequence of Vfs::write calls on an empty store.
\* Paths "a", "ab", "b"; contents empty or the byte 0xFF.
VfsPaths == { <<97>>, <<97, 98>>, <<98>> }
VfsBlobs == { << >>, <<255>> }

\* Vfs::write (lines 236-238) called on store
Write(path, data) ==
  /\ Len(writes) < MaxWrites
  /\ store' = VfsWrite(store, path, data)
  /\ writes' = Append(writes, [path |-> path, bytes |-> data])
  /\ UNCHANGED <<counter, loaded_text, vfs, previews, status, borrow,
                 panicUnwinds, tasks, lastPick, exportCalls, lastExport, panics>>

NextVfs == \E path \in VfsPaths, data \in VfsBlobs : Write(path, data)

SpecVfs == Init /\ [][NextVfs]_vars

\* ------------------------------------------------------------------ claims
PickTasks == {t \in DOMAIN tasks : tasks[t].kind = "u"}
FetchTasks == {t \in DOMAIN tasks : tasks[t].kind = "l"}
\* the handler t resumes in this step with the given result of its call
Resumes(t, kind, res) ==
  /\ tasks[t].kind = kind
  /\ tasks[t].res = "none"
  /\ tasks'[t].res = res

\* C1: the text-fetch is issued at most once in a run, however the 'l' presses
\* and the fetch completions interleave.
C1_FetchIssuedAtMostOnce == Cardinality(FetchTasks) <= 1

\* C2: between handler steps previews is the projection of the mounted vfs:
\* one entry per listed path, in order, from its current bytes; empty when no
\* vfs is mounted.
C2_PreviewsProjectMountedVfs ==
  previews = IF IsSome(vfs) THEN ProjectPreviews(Unwrap(vfs)) ELSE << >>

\* C3: when a 'u' handler resumes with a successful pick it runs to completion
\* and leaves status = "Loaded N files. Press E to export." with N the number
\* of paths of the new vfs, which is the number of previews.
C3_MountReportsFileCount ==
  [][\A t \in DOMAIN tasks :
       Resumes(t, "u", "ok") =>
         /\ tasks'[t].st = "done"
         /\ status' = StatusLoaded(Len(VfsList(Unwrap(vfs'))))
         /\ Len(previews') = Len(VfsList(Unwrap(vfs')))]_vars

\* C4: a failed pick leaves vfs, previews, counter and loaded_text as they
\* were and sets status to a "Failed to load crate" message.
C4_FailedPickChangesOnlyStatus ==
  [][\A t \in DOMAIN tasks :
       Resumes(t, "u", "err") =>
         /\ vfs' = vfs
         /\ previews' = previews
         /\ counter' = counter
         /\ loaded_text' = loaded_text
         /\ \E e \in JsErrors : status' = StatusLoadFailed(e)]_vars

\* a failed pick has resumed over a mounted vfs, which is still mounted
C4_Witness ==
  /\ \E t \in PickTasks : tasks[t].res = "err"
  /\ IsSome(vfs) /\ Unwrap(vfs) = MountFiles(Unwrap(lastPick).files)
  /\ Len(previews) > 0
  /\ status = StatusLoadFailed("JsValue(err)")

PathsOf(files) == {files[i].path : i \in DOMAIN files}
\* how often the entry e occurs in the sequence
Occurrences(files, e) == Cardinality({i \in DOMAIN files : files[i] = e})
StrictlySortedByPath(files) ==
  \A i \in DOMAIN files : \A j \in DOMAIN files :
    i < j => LexLess(files[i].path, files[j].path)
\* the bytes of the last entry of the sequence with the path p
LastBytes(files, p) ==
  LET last == CHOOSE i \in DOMAIN files :
                /\ files[i].path = p
                /\ \A j \in DOMAIN files : files[j].path = p => j <= i
  IN  files[last].bytes
\* this step is a call of export_as_zip that reaches download_as_zip
ExportDelivers ==
  /\ exportCalls' = exportCalls + 1
  /\ Unwrap(lastExport').result.ok

\* C5 as stated: an export after the mount of F hands over exactly the
\* entries of F, none lost or altered, in lexicographic path order.
C5_ExportReproducesEveryEntry ==
  [][ExportDelivers =>
       LET out == Unwrap(lastExport').files
           F   == Unwrap(lastPick).files
       IN  /\ \A i \in DOMAIN out : \A j \in DOMAIN out :
                i < j => ~LexLess(out[j].path, out[i].path)
           /\ \A e \in FileEntry : Occurrences(out, e) = Occurrences(F, e)]_vars

\* C5 amended: an export after the mount of F hands over one file per
\* distinct path of F, in strictly increasing path order, each with the
\* bytes of the last entry of F that has the path.
C5_ExportReproducesLastEntryPerPath ==
  [][ExportDelivers =>
       LET out == Unwrap(lastExport').files
           F   == Unwrap(lastPick).files
       IN  /\ StrictlySortedByPath(out)
           /\ PathsOf(out) = PathsOf(F)
           /\ \A i \in DOMAIN out : out[i].bytes = LastBytes(F, out[i].path)]_vars

\* F = [b, a] was mounted and has been exported as [a, b], bytes intact
C5_Witness ==
  /\ IsSome(lastPick) /\ IsSome(lastExport)
  /\ Unwrap(lastExport).result.ok
  /\ Unwrap(lastPick).files =
       << [path |-> <<98>>, bytes |-> <<104, 10, 105>>],
          [path |-> <<97>>, bytes |-> <<255>>] >>
  /\ Unwrap(lastExport).files =
       << [path |-> <<97>>, bytes |-> <<255>>],
          [path |-> <<98>>, bytes |-> <<104, 10, 105>>] >>

C7_LoadedTextSetOnce ==
  [][loaded_text # None => loaded_text' = loaded_text]_vars

\* C8: 'e' never changes counter, loaded_text, vfs or previews.  With a vfs
\* mounted it makes exactly one export call, over the files of that vfs, and
\* changes status only when the call fails (to "Export failed"); with no vfs
\* mounted no export call is made.
C8_ExportFrame ==
  [][/\ exportCalls' # exportCalls =>
          /\ IsSome(vfs)
          /\ exportCalls' = exportCalls + 1
          /\ Unwrap(lastExport').files = ExportFiles(Unwrap(vfs))
          /\ UNCHANGED <<counter, loaded_text, vfs, previews, tasks>>
          /\ status' = IF Unwrap(lastExport').result.ok THEN status
                       ELSE StatusExportFailed(Unwrap(lastExport').result.err)
     /\ ~IsSome(vfs) => UNCHANGED <<exportCalls, lastExport>>
     /\ \A outcome \in ExportOutcomes :
          KeyE(outcome) => UNCHANGED <<counter, loaded_text, vfs, previews>>]_vars

\* an export over a mounted, non-empty vfs has succeeded and has left the
\* status it found
C8_Witness ==
  /\ IsSome(vfs) /\ IsSome(lastExport)
  /\ Unwrap(lastExport).result.ok
  /\ Unwrap(lastExport).files = ExportFiles(Unwrap(vfs))
  /\ Len(Unwrap(lastExport).files) > 0
  /\ exportCalls = 1
  /\ status = StatusInitial

\* C9: when two picks have both succeeded, the vfs is the file set of the one
\* that resumed last, whichever of the two was issued first.
C9_LastCompletedPickWins ==
  \A t1 \in PickTasks : \A t2 \in PickTasks :
    (t1 < t2 /\ tasks[t1].res = "ok" /\ tasks[t2].res = "ok") =>
      /\ IsSome(lastPick)
      /\ Unwrap(lastPick).task \in PickTasks
      /\ vfs = Some(MountFiles(Unwrap(lastPick).files))

\* the pick issued first resumed last, after the second had been mounted,
\* and its files are the ones mounted
C9_Witness ==
  /\ Len(tasks) = 2
  /\ tasks[1].kind = "u" /\ tasks[1].res = "ok"
  /\ tasks[2].kind = "u" /\ tasks[2].res = "ok"
  /\ Unwrap(lastPick).task = 1
  /\ Unwrap(lastPick).files = << [path |-> <<98>>, bytes |-> <<104, 10, 105>>] >>
  /\ DOMAIN Unwrap(vfs).files = { <<98>> }

\* C10: a mount replaces the vfs wholesale: the mounted vfs holds exactly the
\* paths of the file set picked last, each with bytes of that set, and nothing
\* of an earlier vfs; before the first mount no vfs is there.
C10_MountReplacesWholesale ==
  IF IsSome(lastPick)
  THEN LET F == Unwrap(lastPick).files
       IN  /\ IsSome(vfs)
           /\ DOMAIN Unwrap(vfs).files = PathsOf(F)
           /\ \A p \in PathsOf(F) :
                \E i \in DOMAIN F :
                  F[i].path = p /\ F[i].bytes = Unwrap(vfs).files[p]
  ELSE vfs = None

\* a second mount has dropped a path of the first: the previews left from
\* the first mount still name it, the vfs does not
C10_Witness ==
  /\ \E t1 \in PickTasks : \E t2 \in PickTasks :
       t1 # t2 /\ tasks[t1].res = "ok" /\ tasks[t2].res = "ok"
  /\ IsSome(vfs)
  /\ DOMAIN Unwrap(vfs).files # {}
  /\ \E i \in DOMAIN previews : previews[i].path \notin DOMAIN Unwrap(vfs).files

\* lexicographic order of byte strings, stated position by position
LexBefore(p, q) ==
  \E k \in 0..Min(Len(p), Len(q)) :
    /\ \A i \in 1..k : p[i] = q[i]
    /\ \/ k = Len(p) /\ k < Len(q)
       \/ k < Len(p) /\ k < Len(q) /\ p[k + 1] < q[k + 1]
Reverse(seq) == [i \in 1..Len(seq) |-> seq[Len(seq) + 1 - i]]
\* the store that the write calls of ws leave behind
RECURSIVE Replay(_)
Replay(ws) ==
  IF ws = << >> THEN [files |-> EmptyMap]
  ELSE VfsWrite(Replay(SubSeq(ws, 1, Len(ws) - 1)),
                ws[Len(ws)].path, ws[Len(ws)].bytes)

\* C11: after any sequence of writes list() returns every stored path, each
\* once, in strictly increasing lexicographic order, and the same list
\* whatever the order of the writes.
C11_ListSortedAndComplete ==
  LET l == VfsList(store)
  IN  /\ \A i \in DOMAIN l : \A j \in DOMAIN l : i < j => LexBefore(l[i], l[j])
      /\ {l[i] : i \in DOMAIN l} = PathsOf(writes)
      /\ {l[i] : i \in DOMAIN l} = DOMAIN store.files
      /\ l = VfsList(Replay(Reverse(writes)))

\* "b", "ab", "a" were written in this order and are listed as a, ab, b
C11_Witness ==
  /\ Len(writes) = 3
  /\ writes[1].path = <<98>> /\ writes[2].path = <<97, 98>> /\ writes[3].path = <<97>>
  /\ VfsList(store) = << <<97>>, <<97, 98>>, <<98>> >>

\* C12: write is an upsert: after write(p, b) read(p) is b, read(q) of every
\* other path is what it was, and a path never written reads as absent.
C12_WriteIsUpsert ==
  [][Len(writes') = Len(writes) + 1 =>
       LET w == writes'[Len(writes')]
       IN  /\ VfsRead(store', w.path) = Some(w.bytes)
           /\ \A q \in VfsPaths \ {w.path} : VfsRead(store', q) = VfsRead(store, q)
           /\ \A q \in VfsPaths \ PathsOf(writes') : VfsRead(store', q) = None]_vars

\* "a" was written, then "b", then "a" again with other bytes: read("a") is
\* the later content, read("b") is kept, "ab" is absent
C12_Witness ==
  /\ Len(writes) = 3
  /\ writes[1] = [path |-> <<97>>, bytes |-> <<255>>]
  /\ writes[2] = [path |-> <<98>>, bytes |-> <<255>>]
  /\ writes[3] = [path |-> <<97>>, bytes |-> << >>]
  /\ VfsRead(store, <<97>>) = Some(<< >>)
  /\ VfsRead(store, <<98>>) = Some(<<255>>)
  /\ VfsRead(store, <<97, 98>>) = None

\* the first 30 characters of a text, each newline turned into one space
First30OneLine(text) ==
  [i \in 1..(IF Len(text) < 30 THEN Len(text) ELSE 30) |->
     IF text[i] = 10 THEN 32 ELSE text[i]]

FetchFailures == FetchResults \ {<<"sample text">>}
HoldsFetchError(text) == text \in {Some(f) : f \in FetchFailures}

\* C14: the completion of a failed fetch makes loaded_text present, holding
\* the error text, and leaves status, counter, vfs and previews as they were;
\* from then on no step issues a fetch and an 'l' press changes nothing.
C14_FailedFetchCountsAsLoaded ==
  [][/\ \A t \in DOMAIN tasks :
          (Resumes(t, "l", "ok") /\ HoldsFetchError(loaded_text')) =>
            UNCHANGED <<status, counter, vfs, previews>>
     /\ HoldsFetchError(loaded_text) =>
          /\ IsSome(loaded_text')
          /\ Cardinality({t \in DOMAIN tasks' : tasks'[t].kind = "l"})
               = Cardinality(FetchTasks)
          /\ KeyL => UNCHANGED vars]_vars

\* the only fetch has failed, its error text is held, and the run could
\* still issue a call
C14_Witness ==
  /\ loaded_text = Some(<<"<fetch failed: ", "err", ">">>)
  /\ Cardinality(FetchTasks) = 1
  /\ \A t \in FetchTasks : tasks[t].st = "done"
  /\ CallsIssued < MaxCalls
  /\ status = StatusInitial

C16_NoBorrowPanic == panics = {}

\* C17: whenever a handler is suspended with its external call outstanding,
\* all five fields are unborrowed.
C17_NoGuardAcrossAwait ==
  (\E t \in DOMAIN tasks : tasks[t].st = "awaiting") =>
    \A f \in Fields : borrow[f] = Unused

\* C18: when a pick that resumes with Ok holds some path more than once, the
\* mounted vfs holds each path once with the bytes of its last entry, and
\* the count in status and the number of previews are the number of
\* distinct paths.
C18_DuplicatePathsCountOnce ==
  [][\A t \in DOMAIN tasks :
       Resumes(t, "u", "ok") =>
         LET F == Unwrap(lastPick').files
             v == Unwrap(vfs')
             n == Cardinality(PathsOf(F))
         IN  n < Len(F) =>
               /\ Len(VfsList(v)) = n
               /\ \A p \in PathsOf(F) : VfsRead(v, p) = Some(LastBytes(F, p))
               /\ status' = StatusLoaded(n)
               /\ Len(previews') = n]_vars

\* C19: vfs is present exactly when some pick has resumed with Ok, so it
\* starts absent and no later step returns it to absent; previews is
\* non-empty only while vfs is present.
C19_VfsStaysMounted ==
  /\ IsSome(vfs) <=> \E t \in PickTasks : tasks[t].res = "ok"
  /\ previews # << >> => IsSome(vfs)

\* a mount has succeeded and a later export has failed; vfs is still present
C19_Witness ==
  /\ IsSome(vfs) /\ Len(previews) > 0
  /\ IsSome(lastExport) /\ ~Unwrap(lastExport).result.ok
  /\ status = StatusExportFailed(Unwrap(lastExport).result.err)

====
